---- MODULE Spec2Model ----
(***************************************************************************)
(* Model of mcpe_downloader.py: the command line program main(), the       *)
(* MCPEDownloadExtractor class (requests path, Selenium path, fallback)    *)
(* and the candidate scan _extract_direct_links_from_html.                 *)
(*                                                                         *)
(* Conventions.                                                            *)
(*  - A URL is a record [scheme, host, dir, name, ext]; a relative         *)
(*    reference ("/files/app.apk") has scheme = "" and host = "".          *)
(*    None (Python's None for download_link) is the all-empty record.      *)
(*  - Page markup is a sequence of nodes: visible text (a sequence of      *)
(*    words), text that spells out a URL, or an anchor with an href.       *)
(*  - Every blocking call of the try block of main may end normally, with  *)
(*    the exceptions its library raises, or with a KeyboardInterrupt.      *)
(*  - list(set(links)) has no defined order (string hashing is seeded per  *)
(*    process), so the scan returns any permutation of the set.            *)
(***************************************************************************)
EXTENDS Integers, Sequences, FiniteSets, TLC

VARIABLES
    argv,          \* sys.argv (lines 178-191)
    pc,            \* position of the program
    use_selenium,  \* MCPEDownloadExtractor.use_selenium (line 25)
    driver,        \* MCPEDownloadExtractor.driver: "None" or "WebDriver" (line 26)
    browser,       \* the external browser process: "absent", "running", "quit"
    resp1,         \* response of the first session.get (line 87)
    resp2,         \* response2 of the second session.get (line 107)
    page_source,   \* driver.page_source as scanned by the Selenium path (line 163)
    download_link, \* value returned by get_download_link (line 196; None until then)
    stdout,        \* lines written to sys.stdout
    stderr,        \* lines written to sys.stderr
    exitCode,      \* exit status of the process; -1 while none is decided
    events         \* history of external operations performed, in order

vars == <<argv, pc, use_selenium, driver, browser, resp1, resp2, page_source,
          download_link, stdout, stderr, exitCode, events>>

-----------------------------------------------------------------------------
(* Bounds and program constants *)

MaxLen == 2

wait_time == 12

max_wait_time == 15

timeout == 15

-----------------------------------------------------------------------------
(* URLs *)

None == [scheme |-> "", host |-> "", dir |-> "", name |-> "", ext |-> ""]

URL(s, h, d, n, e) == [scheme |-> s, host |-> h, dir |-> d, name |-> n, ext |-> e]

GetfileURL == URL("https", "mcpedl.org", "getfile", "5916", "")
MirrorURL  == URL("http", "mirror.example", "getfile", "1", "")
FtpURL     == URL("ftp", "mcpedl.org", "getfile", "5916", "")
BareURL    == URL("", "", "getfile", "5916", "")

GameApk     == URL("https", "mcpedl.org", "uploads_files", "x/game", "apk")
RelAppApk   == URL("", "", "files", "app", "apk")
RelGameApk  == URL("", "", "uploads_files", "x/game", "apk")
RelPageHtml == URL("", "", "files", "page", "html")

\* mutant: any URL with a scheme is accepted
StartsWithHttp_any_scheme(u) == u.scheme # ""

\* url.startswith('http')
StartsWithHttp(u) == u.scheme \in {"http", "https"}

\* href.endswith('.apk')
EndsWithApk(u) == u.ext = "apk"

\* re: https://mcpedl\.org/uploads_files/[^"'\s<>]*\.apk
MatchesPattern(u) ==
    /\ u.scheme = "https"
    /\ u.host = "mcpedl.org"
    /\ u.dir = "uploads_files"
    /\ u.ext = "apk"

\* urllib.parse.urljoin(base_url, href) for absolute and root-relative hrefs
urljoin(base, href) ==
    IF href.scheme # "" THEN href
    ELSE [href EXCEPT !.scheme = base.scheme, !.host = base.host]

-----------------------------------------------------------------------------
(* Markup *)

TextNode(ws) == [kind |-> "text", words |-> ws, href |-> None]
UrlNode(u)   == [kind |-> "urltext", words |-> <<>>, href |-> u]
Anchor(u)    == [kind |-> "a", words |-> <<"dl">>, href |-> u]

Nodes ==
    { UrlNode(GameApk), Anchor(GameApk), Anchor(RelAppApk), Anchor(RelGameApk),
      Anchor(RelPageHtml), TextNode(<<"Please", "Wait">>), TextNode(<<"hello">>) }

RECURSIVE SeqsUpTo(_, _)
SeqsUpTo(S, n) ==
    IF n = 0 THEN { <<>> }
    ELSE LET shorter == SeqsUpTo(S, n - 1)
         IN  shorter \cup { Append(s, x) : s \in shorter, x \in S }

Markups == SeqsUpTo(Nodes, MaxLen)

Range(s) == { s[i] : i \in 1..Len(s) }

\* re.findall(pattern, html_content): the matches, in document order. The
\* pattern is looked up in the raw markup, so a URL spelled out in text and a
\* URL inside an href both match; a relative href does not.
RECURSIVE findall(_)
findall(html) ==
    IF html = <<>> THEN <<>>
    ELSE LET n == Head(html)
         IN  (IF n.kind \in {"urltext", "a"} /\ MatchesPattern(n.href)
              THEN <<n.href>> ELSE <<>>) \o findall(Tail(html))

\* for link in soup.find_all('a', href=True): ... links.append(full_url)
RECURSIVE append_anchors(_, _, _)
append_anchors(links, html, base_url) ==
    IF html = <<>> THEN links
    ELSE LET n == Head(html)
             full_url == urljoin(base_url, n.href)
             links2 == IF /\ n.kind = "a"
                          /\ EndsWithApk(n.href)
                          /\ full_url \notin Range(links)
                       THEN Append(links, full_url) ELSE links
         IN  append_anchors(links2, Tail(html), base_url)

\* the list `links` right before list(set(links))
collected_links(html, base_url) == append_anchors(findall(html), html, base_url)

RECURSIVE Orderings(_)
Orderings(S) ==
    IF S = {} THEN { <<>> }
    ELSE UNION { { <<x>> \o s : s \in Orderings(S \ {x}) } : x \in S }

\* list(set(links)): the elements once each, in an order the hash seed decides
list_set(links) == Orderings(Range(links))

\* _extract_direct_links_from_html: every list the call can return
extract_direct_links_from_html(html, base_url) ==
    list_set(collected_links(html, base_url))

\* the URLs found by the pattern, and those found only by the anchor scan
PatternMatched(html) == Range(findall(html))
AnchorOnly(html, base_url) ==
    Range(collected_links(html, base_url)) \ PatternMatched(html)

\* soup.get_text(): the text of all nodes, concatenated
RECURSIVE get_text(_)
get_text(html) ==
    IF html = <<>> THEN <<>> ELSE Head(html).words \o get_text(Tail(html))

\* str.lower(), word by word
lower_word(w) ==
    CASE w = "Please" -> "please"
      [] w = "Wait" -> "wait"
      [] OTHER -> w

lower(text) == [i \in 1..Len(text) |-> lower_word(text[i])]

\* word in page_text_lower
Contains(text, word) ==
    \E i \in 1..(Len(text) - Len(word) + 1) :
        SubSeq(text, i, i + Len(word) - 1) = word

TimerWords == { <<"timer">>, <<"countdown">>, <<"please", "wait">>, <<"seconds">> }

\* any(word in page_text_lower for word in [...])
timer_detected(html) ==
    \E word \in TimerWords : Contains(lower(get_text(html)), word)

-----------------------------------------------------------------------------
(* Responses of session.get *)

NoResponse == [raised |-> FALSE, status_code |-> 0, text |-> <<>>]

\* session.get raised requests.exceptions.RequestException (timeout, DNS, ...)
RequestException == [raised |-> TRUE, status_code |-> 0, text |-> <<>>]

StatusCodes == {200, 503}

Responses ==
    { RequestException } \cup
    { [raised |-> FALSE, status_code |-> s, text |-> m] :
          s \in StatusCodes, m \in Markups }

\* response.raise_for_status() raises HTTPError
raise_for_status(r) == r.status_code >= 400 /\ r.status_code < 600

-----------------------------------------------------------------------------
(* Output lines and the history of external operations *)

Line(who, msg) == [who |-> who, msg |-> msg, url |-> None]
LinkLine(u)    == [who |-> "main", msg |-> "link", url |-> u]

\* an operation on the outside world; arg is the timeout or the duration, and
\* target the URL retrieved (None where there is none)
Ev(op, arg) == [op |-> op, arg |-> arg, target |-> None]
Get(op, arg, u) == [op |-> op, arg |-> arg, target |-> u]

Extend(s, t) == s \o t

-----------------------------------------------------------------------------
(* Command line *)

Flags == {"-s", "--selenium", "-v"}

Argvs ==
    { <<"mcpe_downloader.py">> } \cup
    { <<"mcpe_downloader.py", u>> : u \in {GetfileURL, MirrorURL, FtpURL, BareURL} } \cup
    { <<"mcpe_downloader.py", u, f>> : u \in {GetfileURL, FtpURL}, f \in Flags }

\* use_selenium_flag = len(sys.argv) > 2 and sys.argv[2] in ['-s', '--selenium']
use_selenium_flag(args) == Len(args) > 2 /\ args[3] \in {"-s", "--selenium"}

\* url = sys.argv[1]
url == argv[2]

-----------------------------------------------------------------------------
(* The state after the interpreter has started main() *)

Init ==
    /\ argv \in Argvs
    /\ pc = "main"
    /\ use_selenium = FALSE
    /\ driver = "None"
    /\ browser = "absent"
    /\ resp1 = NoResponse
    /\ resp2 = NoResponse
    /\ page_source = <<>>
    /\ download_link = None
    /\ stdout = <<>>
    /\ stderr = <<>>
    /\ exitCode = -1
    /\ events = <<>>

\* `return link` out of get_download_link, after printing `lines`
Return(lines, link) ==
    /\ stdout' = Extend(stdout, lines)
    /\ download_link' = link
    /\ pc' = "main_check"

\* the statements of main's try block and of what it calls
TryBlock ==
    { "get_download_link", "setup_driver", "driver_get", "selenium_sleep",
      "selenium_scan", "requests_get", "requests_sleep", "requests_reget",
      "main_check" }

-----------------------------------------------------------------------------
(* main: argument checks and construction of the extractor *)

main_usage ==
    /\ pc = "main"
    /\ Len(argv) < 2
    /\ stdout' = Extend(stdout, << Line("main", "Usage"), Line("main", "Example") >>)
    /\ exitCode' = 1
    /\ pc' = "done"
    /\ UNCHANGED <<argv, use_selenium, driver, browser, resp1, resp2, page_source,
                   download_link, stderr, events>>

main_bad_scheme ==
    /\ pc = "main"
    /\ Len(argv) >= 2
    /\ ~StartsWithHttp(url)
    /\ stdout' = Extend(stdout, << Line("main", "Error: URL must start with http") >>)
    /\ exitCode' = 1
    /\ pc' = "done"
    /\ UNCHANGED <<argv, use_selenium, driver, browser, resp1, resp2, page_source,
                   download_link, stderr, events>>

main_construct ==
    /\ pc = "main"
    /\ Len(argv) >= 2
    /\ StartsWithHttp(url)
    /\ use_selenium' = use_selenium_flag(argv)
    /\ driver' = "None"
    /\ pc' = "get_download_link"
    /\ UNCHANGED <<argv, browser, resp1, resp2, page_source, download_link,
                   stdout, stderr, exitCode, events>>

-----------------------------------------------------------------------------
(* get_download_link *)

get_download_link ==
    /\ pc = "get_download_link"
    /\ stdout' = Extend(stdout, << Line("get_download_link", "Analyzing") >>)
    /\ pc' = IF use_selenium THEN "setup_driver" ELSE "requests_get"
    /\ UNCHANGED <<argv, use_selenium, driver, browser, resp1, resp2, page_source,
                   download_link, stderr, exitCode, events>>

-----------------------------------------------------------------------------
(* _get_download_link_requests *)

\* mutant: the wait and the re-fetch do not depend on the timer words
after_first_scan_always_waiting(html, lines) ==
    /\ stdout' = Extend(stdout, lines \o
            << Line("_get_download_link_requests", "Timer detected") >>)
    /\ pc' = "requests_sleep"
    /\ UNCHANGED download_link

\* what follows a Candidate Scan of the first response that found nothing
after_first_scan(html, lines) ==
    IF timer_detected(html)
    THEN /\ stdout' = Extend(stdout, lines \o
                 << Line("_get_download_link_requests", "Timer detected") >>)
         /\ pc' = "requests_sleep"
         /\ UNCHANGED download_link
    ELSE Return(lines \o
                 << Line("_get_download_link_requests", "Could not find") >>, None)

requests_get ==
    /\ pc = "requests_get"
    /\ \E r \in Responses :
        LET using == << Line("_get_download_link_requests", "Using requests") >>
        IN  /\ resp1' = r
            /\ IF r.raised \/ raise_for_status(r)
               THEN /\ events' = Append(events, Get("session.get", timeout, url))
                    /\ Return(using \o
                         << Line("_get_download_link_requests", "Network error") >>, None)
               ELSE /\ events' = events \o << Get("session.get", timeout, url), Ev("scan", 1) >>
                    /\ \E direct_links \in extract_direct_links_from_html(r.text, url) :
                         IF direct_links # <<>>
                         THEN Return(using \o
                                << Line("_get_download_link_requests", "Found immediately") >>,
                                direct_links[1])
                         ELSE after_first_scan(r.text, using)
    /\ UNCHANGED <<argv, use_selenium, driver, browser, resp2, page_source,
                   stderr, exitCode>>

\* mutant: the wait is left out before the re-fetch
requests_sleep_skipped ==
    /\ pc = "requests_sleep"
    /\ pc' = "requests_reget"
    /\ UNCHANGED <<argv, use_selenium, driver, browser, resp1, resp2, page_source,
                   download_link, stdout, stderr, exitCode, events>>

requests_sleep ==
    /\ pc = "requests_sleep"
    /\ events' = Append(events, Ev("time.sleep", wait_time))
    /\ pc' = "requests_reget"
    /\ UNCHANGED <<argv, use_selenium, driver, browser, resp1, resp2, page_source,
                   download_link, stdout, stderr, exitCode>>

\* mutant: a second scan without candidate waits and fetches again
after_second_scan_retrying(lines) ==
    /\ stdout' = Extend(stdout, lines)
    /\ pc' = "requests_sleep"
    /\ UNCHANGED download_link

\* what follows a Candidate Scan of the second response that found nothing
after_second_scan(lines) ==
    Return(lines \o << Line("_get_download_link_requests", "Could not find") >>, None)

requests_reget ==
    /\ pc = "requests_reget"
    /\ \E r \in Responses :
        LET refetching == << Line("_get_download_link_requests", "Re-fetching") >>
        IN  /\ resp2' = r
            /\ IF r.raised
               THEN /\ events' = Append(events, Get("session.get", timeout, url))
                    /\ Return(refetching \o
                         << Line("_get_download_link_requests", "Network error") >>, None)
               ELSE /\ events' = events \o << Get("session.get", timeout, url), Ev("scan", 2) >>
                    /\ \E direct_links2 \in extract_direct_links_from_html(r.text, url) :
                         IF direct_links2 # <<>>
                         THEN Return(refetching \o
                                << Line("_get_download_link_requests", "Found after waiting") >>,
                                direct_links2[1])
                         ELSE after_second_scan(refetching)
    /\ UNCHANGED <<argv, use_selenium, driver, browser, resp1, page_source,
                   stderr, exitCode>>

-----------------------------------------------------------------------------
(* setup_driver and _get_download_link_selenium *)

\* mutant: the availability check after setup_driver is missing
selenium_unavailable_never(d, u) == FALSE

\* if not self.driver or not self.use_selenium
selenium_unavailable(d, u) == d = "None" \/ ~u

\* the check on line 151 after setup_driver has returned with driver d, flag u
after_setup(d, u, lines) ==
    IF selenium_unavailable(d, u)
    THEN /\ stdout' = Extend(stdout, lines \o
                 << Line("_get_download_link_selenium", "Falling back to requests") >>)
         /\ pc' = "requests_get"
    ELSE /\ stdout' = Extend(stdout, lines)
         /\ pc' = "driver_get"

\* `from selenium import webdriver` raises ImportError
setup_driver_import_error ==
    /\ pc = "setup_driver"
    /\ use_selenium' = FALSE
    /\ after_setup(driver, FALSE,
            << Line("setup_driver", "Selenium library not found"),
               Line("setup_driver", "Note: not recommended for Termux") >>)
    /\ UNCHANGED <<argv, driver, browser, resp1, resp2, page_source,
                   download_link, stderr, exitCode, events>>

\* webdriver.Chrome(options=chrome_options) returns a driver
setup_driver_ok ==
    /\ pc = "setup_driver"
    /\ driver = "None"
    /\ driver' = "WebDriver"
    /\ browser' = "running"
    /\ events' = Append(events, Ev("webdriver.Chrome", 0))
    /\ after_setup("WebDriver", use_selenium,
            << Line("setup_driver", "WebDriver initialized") >>)
    /\ UNCHANGED <<argv, use_selenium, resp1, resp2, page_source,
                   download_link, stderr, exitCode>>

\* webdriver.Chrome(options=chrome_options) raises
setup_driver_failed ==
    /\ pc = "setup_driver"
    /\ driver = "None"
    /\ use_selenium' = FALSE
    /\ after_setup(driver, FALSE,
            << Line("setup_driver", "Failed to initialize WebDriver"),
               Line("setup_driver", "Note: install ChromeDriver") >>)
    /\ UNCHANGED <<argv, driver, browser, resp1, resp2, page_source,
                   download_link, stderr, exitCode, events>>

\* self.driver.get(url): returns, or raises (with no driver: AttributeError)
driver_get ==
    /\ pc = "driver_get"
    /\ LET loading == << Line("_get_download_link_selenium", "Loading page") >>
       IN  \/ /\ driver # "None"
              /\ events' = Append(events, Get("driver.get", 0, url))
              /\ stdout' = Extend(stdout, loading)
              /\ pc' = "selenium_sleep"
              /\ UNCHANGED download_link
           \/ /\ events' = IF driver # "None"
                           THEN Append(events, Get("driver.get", 0, url)) ELSE events
              /\ Return(loading \o
                   << Line("_get_download_link_selenium", "Selenium method failed") >>, None)
    /\ UNCHANGED <<argv, use_selenium, driver, browser, resp1, resp2, page_source,
                   stderr, exitCode>>

selenium_sleep ==
    /\ pc = "selenium_sleep"
    /\ stdout' = Extend(stdout, << Line("_get_download_link_selenium", "Waiting up to") >>)
    /\ events' = Append(events, Ev("time.sleep", max_wait_time))
    /\ pc' = "selenium_scan"
    /\ UNCHANGED <<argv, use_selenium, driver, browser, resp1, resp2, page_source,
                   download_link, stderr, exitCode>>

selenium_scan ==
    /\ pc = "selenium_scan"
    /\ \E html \in Markups :
        /\ page_source' = html
        /\ events' = Append(events, Ev("scan", 1))
        /\ \E direct_links \in extract_direct_links_from_html(html, url) :
             IF direct_links # <<>>
             THEN Return(<< Line("_get_download_link_selenium", "Found link with Selenium") >>,
                         direct_links[1])
             ELSE Return(<< Line("_get_download_link_selenium", "Could not extract") >>,
                         None)
    /\ UNCHANGED <<argv, use_selenium, driver, browser, resp1, resp2,
                   stderr, exitCode>>

-----------------------------------------------------------------------------
(* main: the try block's tail, its handlers and its finally clause *)

\* mutant: the branch without link reports on stderr and forgets sys.exit(1)
main_check_without_exit ==
    /\ pc = "main_check"
    /\ IF download_link # None
       THEN /\ stdout' = Append(stdout, LinkLine(download_link))
            /\ UNCHANGED stderr
       ELSE /\ stderr' = Append(stderr, Line("main", "No download link found"))
            /\ UNCHANGED stdout
    /\ exitCode' = 0
    /\ pc' = "finally"
    /\ UNCHANGED <<argv, use_selenium, driver, browser, resp1, resp2, page_source,
                   download_link, events>>

\* if download_link: print(download_link) else: ... sys.exit(1)
main_check ==
    /\ pc = "main_check"
    /\ IF download_link # None
       THEN /\ stdout' = Append(stdout, LinkLine(download_link))
            /\ exitCode' = 0
            /\ UNCHANGED stderr
       ELSE /\ stderr' = Append(stderr, Line("main", "No download link found"))
            /\ exitCode' = 1
            /\ UNCHANGED stdout
    /\ pc' = "finally"
    /\ UNCHANGED <<argv, use_selenium, driver, browser, resp1, resp2, page_source,
                   download_link, events>>

\* except KeyboardInterrupt: a statement of the try block is interrupted
KeyboardInterrupt ==
    /\ pc \in TryBlock
    /\ stderr' = Append(stderr, Line("main", "Process interrupted by user"))
    /\ exitCode' = 1
    /\ pc' = "finally"
    /\ UNCHANGED <<argv, use_selenium, driver, browser, resp1, resp2, page_source,
                   download_link, stdout, events>>

\* mutant: the reference is dropped and driver.quit() is never called
close_driver_without_quit(d, b) == [driver |-> "None", browser |-> b]

\* close_driver: if self.driver: self.driver.quit(); self.driver = None
close_driver(d, b) ==
    IF d # "None" THEN [driver |-> "None", browser |-> "quit"]
    ELSE [driver |-> d, browser |-> b]

\* finally: extractor.close_driver(), then the process exits with exitCode
main_finally ==
    /\ pc = "finally"
    /\ driver' = close_driver(driver, browser).driver
    /\ browser' = close_driver(driver, browser).browser
    /\ events' = IF driver # "None" THEN Append(events, Ev("driver.quit", 0)) ELSE events
    /\ pc' = "done"
    /\ UNCHANGED <<argv, use_selenium, resp1, resp2, page_source, download_link,
                   stdout, stderr, exitCode>>

Next ==
    \/ main_usage
    \/ main_bad_scheme
    \/ main_construct
    \/ get_download_link
    \/ requests_get
    \/ requests_sleep
    \/ requests_reget
    \/ setup_driver_import_error
    \/ setup_driver_ok
    \/ setup_driver_failed
    \/ driver_get
    \/ selenium_sleep
    \/ selenium_scan
    \/ main_check
    \/ KeyboardInterrupt
    \/ main_finally

Spec == Init /\ [][Next]_vars

-----------------------------------------------------------------------------
(* History read off `events` *)

Sleeps == SelectSeq(events, LAMBDA e : e.op = "time.sleep")

IsRetrieval(e) == e.op \in {"session.get", "driver.get"}

Retrievals == SelectSeq(events, IsRetrieval)

Scans == SelectSeq(events, LAMBDA e : e.op = "scan")

\* the Selenium path navigated; otherwise the requests path was the one used
BrowserPath == \E i \in DOMAIN events : events[i].op = "driver.get"

\* get_download_link has returned to main
Returned == pc = "main_check"

\* the response was delivered and passed the status check of line 88
Fetched(r) == r # NoResponse /\ ~r.raised /\ ~raise_for_status(r)

NoCandidates(html) == collected_links(html, url) = <<>>

-----------------------------------------------------------------------------
(* Claims *)

ProgressWriters ==
    { "get_download_link", "_get_download_link_requests",
      "_get_download_link_selenium", "setup_driver" }

\* C1: at process exit, standard output holds exactly the one line with the
\* discovered URL when the run succeeded, and in no run does it hold a line
\* written by get_download_link, _get_download_link_requests,
\* _get_download_link_selenium or setup_driver.
C1_StdoutIsLinkOrNothing ==
    pc = "done" =>
        /\ \A i \in DOMAIN stdout : stdout[i].who \notin ProgressWriters
        /\ exitCode = 0 => stdout = << LinkLine(download_link) >>

\* the markup whose scan produced the returned link
ScannedMarkup ==
    IF BrowserPath THEN page_source
    ELSE IF resp2 # NoResponse THEN resp2.text ELSE resp1.text

\* C2: when the scanned markup holds a pattern-matched URL and also an
\* anchor-only .apk link, the link the extractor returns is pattern-matched.
C2_PatternMatchedFirst ==
    (/\ Returned
     /\ download_link # None
     /\ PatternMatched(ScannedMarkup) # {}
     /\ AnchorOnly(ScannedMarkup, url) # {})
        => download_link \in PatternMatched(ScannedMarkup)

LinkPrinted ==
    download_link # None /\ LinkLine(download_link) \in Range(stdout)

NetworkError(r) == r.raised \/ raise_for_status(r)

\* C5: when the first fetch or the re-fetch of the requests path ends in a
\* network error (exception or HTTP failure status), the operation returns
\* None and the process exits with 1.
C5_NetworkErrorYieldsNone ==
    (pc \in {"main_check", "finally", "done"} /\ (NetworkError(resp1) \/ NetworkError(resp2)))
        => /\ download_link = None
           /\ pc = "done" => exitCode = 1

\* the first markup retrieved is a countdown page without a candidate
FirstMarkupIsCountdown ==
    IF BrowserPath
    THEN Scans # <<>> /\ NoCandidates(page_source) /\ timer_detected(page_source)
    ELSE Fetched(resp1) /\ NoCandidates(resp1.text) /\ timer_detected(resp1.text)

\* C6 (as claimed): on a countdown page without a first candidate, either path
\* performs exactly one wait (12 on the requests path, 15 on the browser path)
\* and exactly one re-fetch of the same URL, followed by a second scan of
\* the markup the re-fetch delivered.
C6_OneWaitOneRefetchBothPaths ==
    (Returned /\ FirstMarkupIsCountdown) =>
        /\ Len(Sleeps) = 1
        /\ Sleeps[1].arg = IF BrowserPath THEN max_wait_time ELSE wait_time
        /\ Len(Retrievals) = 2
        /\ Retrievals[2].target = Retrievals[1].target
        /\ resp2.raised \/ Len(Scans) = 2

\* C6 (amended): on the requests path, chosen directly or by fallback, a
\* countdown page without a first candidate leads to exactly one 12-unit wait
\* and one re-fetch of the same URL, and to a second scan when the re-fetch
\* delivers a response; the browser path does one navigation, one 15-unit
\* wait and one scan, and never re-fetches, whatever the markup holds.
C6_OneWaitOneRefetch ==
    Returned =>
        /\ (~BrowserPath /\ FirstMarkupIsCountdown) =>
              events = << Get("session.get", timeout, url), Ev("scan", 1),
                          Ev("time.sleep", wait_time),
                          Get("session.get", timeout, url) >>
                       \o (IF resp2.raised THEN <<>> ELSE << Ev("scan", 2) >>)
        /\ (BrowserPath /\ Scans # <<>>) =>
              events = << Ev("webdriver.Chrome", 0), Get("driver.get", 0, url),
                          Ev("time.sleep", max_wait_time), Ev("scan", 1) >>

C6_Witness ==
    /\ Returned
    /\ ~BrowserPath
    /\ FirstMarkupIsCountdown
    /\ download_link # None
    /\ Len(Scans) = 2

\* C7: on the requests path a page without countdown keyword and without
\* candidate makes the extractor return None after one fetch, with no wait
\* and no re-fetch.
C7_NoTimerNoRetry ==
    (/\ Returned
     /\ ~BrowserPath
     /\ Fetched(resp1)
     /\ NoCandidates(resp1.text)
     /\ ~timer_detected(resp1.text))
        => /\ download_link = None
           /\ events = << Get("session.get", timeout, url), Ev("scan", 1) >>

C7_Witness ==
    /\ Returned
    /\ ~BrowserPath
    /\ Fetched(resp1)
    /\ resp1.text # <<>>
    /\ NoCandidates(resp1.text)
    /\ ~timer_detected(resp1.text)

\* setup_driver reported that the browser could not be acquired
AcquisitionFailed ==
    \E i \in DOMAIN stdout :
        /\ stdout[i].who = "setup_driver"
        /\ stdout[i].msg \in {"Selenium library not found", "Failed to initialize WebDriver"}

\* the values _get_download_link_requests can return when session.get
\* delivers r1 and then r2
requests_outcomes(r1, r2, base_url) ==
    LET links1 == collected_links(r1.text, base_url)
        links2 == collected_links(r2.text, base_url)
    IN  IF r1.raised \/ raise_for_status(r1) THEN { None }
        ELSE IF links1 # <<>> THEN Range(links1)
        ELSE IF ~timer_detected(r1.text) THEN { None }
        ELSE IF r2.raised THEN { None }
        ELSE IF links2 # <<>> THEN Range(links2)
        ELSE { None }

\* C8: when the browser was requested and could not be acquired, use_selenium
\* is False and driver stays None, and get_download_link returns what
\* _get_download_link_requests returns for the responses received.
C8_FallbackIsRequestsPath ==
    AcquisitionFailed =>
        /\ use_selenium = FALSE
        /\ driver = "None"
        /\ browser = "absent"
        /\ ~BrowserPath
        /\ Returned =>
              /\ resp1 # NoResponse
              /\ events[1] = Get("session.get", timeout, url)
              /\ download_link \in requests_outcomes(resp1, resp2, url)

C8_Witness ==
    /\ AcquisitionFailed
    /\ Returned
    /\ use_selenium_flag(argv)
    /\ download_link # None

\* sys.argv without URL, or with one whose scheme is not http or https
BadArguments == Len(argv) < 2 \/ argv[2].scheme \notin {"http", "https"}

\* C9: without URL argument, or with a URL that does not start with http, the
\* process prints the usage or scheme message, exits with 1 and performs no
\* fetch, no browser acquisition and no navigation.
C9_UsageErrorNoNetwork ==
    BadArguments =>
        /\ events = <<>>
        /\ browser = "absent"
        /\ driver = "None"
        /\ resp1 = NoResponse /\ resp2 = NoResponse
        /\ pc \in {"main", "done"}
        /\ pc = "done" =>
              /\ exitCode = 1
              /\ stdout # <<>>
              /\ \A i \in DOMAIN stdout : stdout[i].who = "main"

C9_Witness == pc = "done" /\ Len(argv) >= 2 /\ argv[2] = FtpURL /\ exitCode = 1

\* C10: a run performs at most one sleep and at most two page retrievals, and
\* a sleep lies between the first retrieval and the second.
C10_AtMostOneRetry ==
    /\ Len(Sleeps) <= 1
    /\ Len(Retrievals) <= 2
    /\ \A i, j \in DOMAIN events :
          (i < j /\ IsRetrieval(events[i]) /\ IsRetrieval(events[j]))
              => \E k \in (i + 1)..(j - 1) : events[k].op = "time.sleep"

C10_Witness == Returned /\ Len(Retrievals) = 2 /\ Len(Sleeps) = 1

====
